---- MODULE Spec2Model ----
(***************************************************************************)
(* Model of the MSA301 accelerometer driver (adafruit_msa301.py).          *)
(*                                                                         *)
(* The driver keeps no configuration of its own: every attribute is a      *)
(* register descriptor (ROUnaryStruct, RWBit, RWBits, ROBits of the        *)
(* adafruit_register package) bound to a device register, so the state is  *)
(* the device's register file plus the position of the driver object       *)
(* (not yet constructed, construction failed, ready).  Each public         *)
(* operation is one action; the bus transactions it issues are recorded in *)
(* `bus`, and what it returned or raised in `last`.                        *)
(***************************************************************************)
EXTENDS Integers, Sequences, FiniteSets, TLC

(***************************************************************************)
(* Bounds of the model.                                                    *)
(***************************************************************************)
\* initial register contents are drawn from InitByte(0) .. InitByte(MaxInit + 2)
MaxInit == 3
\* out-of-range arguments tried: 2^width .. 2^width + MaxOver
MaxOver == 1
\* number of raw (low, high) byte pairs an output axis can hold
NumPairs == 5
\* operations performed on a constructed driver
MaxOps == 2
\* initial register contents tried by construction: InitByte(0) .. InitByte(MaxWide)
MaxWide == 5

(***************************************************************************)
(* Register addresses and constants of the driver.                         *)
(***************************************************************************)
MSA301_REG_PARTID == 1
MSA301_REG_OUT_X_L == 2
MSA301_REG_RESRANGE == 15
MSA301_REG_ODR == 16
MSA301_REG_POWERMODE == 17
MSA301_PART_ID == 19
\* _STANDARD_GRAVITY = 9.806, kept exact as thousandths
STANDARD_GRAVITY_MILLI == 9806

OutRegs == MSA301_REG_OUT_X_L .. (MSA301_REG_OUT_X_L + 5)
ConfigRegs == {MSA301_REG_RESRANGE, MSA301_REG_ODR, MSA301_REG_POWERMODE}
Registers == {MSA301_REG_PARTID} \cup OutRegs \cup ConfigRegs

\* Mode.NORMAL, DataRate.RATE_500_HZ, BandWidth.WIDTH_250_HZ,
\* Range.RANGE_4_G, Resolution.RESOLUTION_14_BIT
Mode_NORMAL == 0
DataRate_RATE_500_HZ == 9
BandWidth_WIDTH_250_HZ == 9
Range_RANGE_2_G == 0
Range_RANGE_4_G == 1
Resolution_RESOLUTION_14_BIT == 0

(***************************************************************************)
(* Bit operations on non-negative integers (Python's &, |, <<, >>).        *)
(***************************************************************************)
BitAt(x, i) == (x \div (2 ^ i)) % 2

RECURSIVE BitAndUpTo(_, _, _)
BitAndUpTo(a, b, n) ==
    IF n < 0 THEN 0
    ELSE BitAt(a, n) * BitAt(b, n) * (2 ^ n) + BitAndUpTo(a, b, n - 1)

\* a & b for operands below 2^16
BitAnd(a, b) == BitAndUpTo(a, b, 15)

\* a | b
BitOr(a, b) == a + b - BitAnd(a, b)

\* a & ~b
BitClear(a, b) == a - BitAnd(a, b)

(***************************************************************************)
(* The register descriptors.                                               *)
(***************************************************************************)
\* RWBits.__init__: bit_mask = ((1 << num_bits) - 1) << lowest_bit
BitMaskWide(num_bits, lowest_bit) == ((2 ^ (num_bits + 1)) - 1) * (2 ^ lowest_bit)
BitMask(num_bits, lowest_bit) == ((2 ^ num_bits) - 1) * (2 ^ lowest_bit)

\* RWBits.__get__: reg = (reg & bit_mask) >> lowest_bit
RWBitsGet(num_bits, lowest_bit, reg) ==
    BitAnd(reg, BitMask(num_bits, lowest_bit)) \div (2 ^ lowest_bit)

\* RWBits.__set__: value <<= lowest_bit; reg &= ~bit_mask; reg |= value;
\* the byte written back is reg & 0xFF
RWBitsSet(num_bits, lowest_bit, reg, value) ==
    BitOr(BitClear(reg, BitMask(num_bits, lowest_bit)),
          value * (2 ^ lowest_bit)) % 256

\* RWBit.__set__: buffer |= bit_mask if value else buffer &= ~bit_mask
RWBitSet(bit, reg, value) ==
    IF value THEN BitOr(reg, 2 ^ bit) ELSE BitClear(reg, 2 ^ bit)

(***************************************************************************)
(* The configuration fields of class MSA301.                               *)
(***************************************************************************)
Fields == {"power_mode", "bandwidth", "data_rate", "range", "resolution"}
DisableBits == {"_disable_x", "_disable_y", "_disable_z"}

NumBits(f) ==
    CASE f = "power_mode" -> 2
      [] f = "bandwidth"  -> 4
      [] f = "data_rate"  -> 4
      [] f = "range"      -> 2
      [] f = "resolution" -> 2

RegOf(f) ==
    CASE f = "power_mode" -> MSA301_REG_POWERMODE
      [] f = "bandwidth"  -> MSA301_REG_POWERMODE
      [] f = "data_rate"  -> MSA301_REG_ODR
      [] f = "range"      -> MSA301_REG_RESRANGE
      [] f = "resolution" -> MSA301_REG_RESRANGE
      [] f \in DisableBits -> MSA301_REG_ODR

LowestBitOff(f) ==
    CASE f = "power_mode" -> 7
      [] f = "bandwidth"  -> 1
      [] f = "data_rate"  -> 0
      [] f = "range"      -> 0
      [] f = "resolution" -> 2
      [] f = "_disable_x" -> 7
      [] f = "_disable_y" -> 6
      [] f = "_disable_z" -> 5
LowestBit(f) ==
    CASE f = "power_mode" -> 6
      [] f = "bandwidth"  -> 1
      [] f = "data_rate"  -> 0
      [] f = "range"      -> 0
      [] f = "resolution" -> 2
      [] f = "_disable_x" -> 7
      [] f = "_disable_y" -> 6
      [] f = "_disable_z" -> 5

\* value of field f in the register file rs
FieldGet(f, rs) == RWBitsGet(NumBits(f), LowestBit(f), rs[RegOf(f)])

(***************************************************************************)
(* Bus transactions.  A descriptor get is one register read; a descriptor  *)
(* set is a register read followed by a register write.  `by` names the    *)
(* descriptor that issued the transaction.                                 *)
(***************************************************************************)
BusRead(reg, f) == [kind |-> "read", reg |-> reg, val |-> 0, by |-> f]
BusWrite(reg, v, f) == [kind |-> "write", reg |-> reg, val |-> v, by |-> f]

\* the device and the transaction log after `obj.f = value` for an RWBits f
SetBits(st, f, value) ==
    LET r == RegOf(f)
        new == RWBitsSet(NumBits(f), LowestBit(f), st.regs[r], value)
    IN  [regs |-> [st.regs EXCEPT ![r] = new],
         bus  |-> st.bus \o <<BusRead(r, f), BusWrite(r, new, f)>>]

\* the device and the transaction log after `obj.f = value` for an RWBit f
SetBit(st, f, value) ==
    LET r == RegOf(f)
        new == RWBitSet(LowestBit(f), st.regs[r], value)
    IN  [regs |-> [st.regs EXCEPT ![r] = new],
         bus  |-> st.bus \o <<BusRead(r, f), BusWrite(r, new, f)>>]

Writes(log) == SelectSeq(log, LAMBDA t : t.kind = "write")

(***************************************************************************)
(* State.                                                                  *)
(***************************************************************************)
VARIABLES
    regs,   \* the device's registers: address -> byte
    pc,     \* "new" (before MSA301(i2c)), "failed", "ready"
    bus,    \* the bus transactions issued by the last operation
    last,   \* the last operation, its arguments, its result or exception
    nops    \* number of operations performed since construction

vars == <<regs, pc, bus, last, nops>>

NoAxes == <<0, 0, 0>>

Outcome(op, f, v, res, err) ==
    [op |-> op, field |-> f, value |-> v, result |-> res, err |-> err,
     raw |-> NoAxes, scale |-> 0, num |-> NoAxes]

\* contents a register may hold before the driver is constructed
InitByte(k) == (k * 85) % 256

\* raw (low byte, high byte) pairs of an output axis
RawPair(k) ==
    CASE k = 0 -> <<4, 0>>
      [] k = 1 -> <<252, 255>>
      [] k = 2 -> <<255, 127>>
      [] k = 3 -> <<255, 255>>
      [] k = 4 -> <<0, 128>>
      [] OTHER -> <<(k * 37) % 256, (k * 101) % 256>>

\* the output registers 0x02..0x07 holding pair i for X, j for Y, k for Z
OutBytes(i, j, k) ==
    [r \in OutRegs |->
        CASE r = MSA301_REG_OUT_X_L     -> RawPair(i)[1]
          [] r = MSA301_REG_OUT_X_L + 1 -> RawPair(i)[2]
          [] r = MSA301_REG_OUT_X_L + 2 -> RawPair(j)[1]
          [] r = MSA301_REG_OUT_X_L + 3 -> RawPair(j)[2]
          [] r = MSA301_REG_OUT_X_L + 4 -> RawPair(k)[1]
          [] r = MSA301_REG_OUT_X_L + 5 -> RawPair(k)[2]]

RegFile(id, out, c0F, c10, c11) ==
    [r \in Registers |->
        CASE r = MSA301_REG_PARTID    -> id
          [] r \in OutRegs            -> out[r]
          [] r = MSA301_REG_RESRANGE  -> c0F
          [] r = MSA301_REG_ODR       -> c10
          [] r = MSA301_REG_POWERMODE -> c11]

Init ==
    /\ \E id \in 0..255, i \in 0..MaxInit :
          regs = RegFile(id, OutBytes(0, 1, 2),
                         InitByte(i), InitByte(i + 1), InitByte(i + 2))
    /\ pc = "new"
    /\ bus = <<>>
    /\ last = Outcome("none", "none", 0, 0, "none")
    /\ nops = 0

(***************************************************************************)
(* MSA301.__init__                                                         *)
(***************************************************************************)
PartIdOkLoose(id) == id # 0
PartIdOk(id) == id = MSA301_PART_ID

\* the default configuration applied by __init__, in program order
ApplyDefaultsSwapped(st) ==
    LET s1 == SetBit(st, "_disable_x", FALSE)
        s2 == SetBit(s1, "_disable_y", FALSE)
        s3 == SetBit(s2, "_disable_z", FALSE)
        s4 == SetBits(s3, "power_mode", Mode_NORMAL)
        s5 == SetBits(s4, "bandwidth", BandWidth_WIDTH_250_HZ)
        s6 == SetBits(s5, "data_rate", DataRate_RATE_500_HZ)
        s7 == SetBits(s6, "range", Range_RANGE_4_G)
    IN  SetBits(s7, "resolution", Resolution_RESOLUTION_14_BIT)
ApplyDefaultsNoDisable(st) ==
    LET s4 == SetBits(st, "power_mode", Mode_NORMAL)
        s5 == SetBits(s4, "data_rate", DataRate_RATE_500_HZ)
        s6 == SetBits(s5, "bandwidth", BandWidth_WIDTH_250_HZ)
        s7 == SetBits(s6, "range", Range_RANGE_4_G)
    IN  SetBits(s7, "resolution", Resolution_RESOLUTION_14_BIT)
ApplyDefaults(st) ==
    LET s1 == SetBit(st, "_disable_x", FALSE)
        s2 == SetBit(s1, "_disable_y", FALSE)
        s3 == SetBit(s2, "_disable_z", FALSE)
        s4 == SetBits(s3, "power_mode", Mode_NORMAL)
        s5 == SetBits(s4, "data_rate", DataRate_RATE_500_HZ)
        s6 == SetBits(s5, "bandwidth", BandWidth_WIDTH_250_HZ)
        s7 == SetBits(s6, "range", Range_RANGE_4_G)
    IN  SetBits(s7, "resolution", Resolution_RESOLUTION_14_BIT)

Construct ==
    /\ pc = "new"
    /\ LET st0 == [regs |-> regs,
                   bus  |-> <<BusRead(MSA301_REG_PARTID, "_part_id")>>]
       IN  IF ~PartIdOk(regs[MSA301_REG_PARTID])
           THEN /\ pc' = "failed"
                /\ regs' = regs
                /\ bus' = st0.bus
                /\ last' = Outcome("init", "none", 0, 0, "AttributeError")
                /\ nops' = nops
           ELSE LET st == ApplyDefaults(st0)
                IN  /\ pc' = "ready"
                    /\ regs' = st.regs
                    /\ bus' = st.bus
                    /\ last' = Outcome("init", "none", 0, 0, "none")
                    /\ nops' = nops

(***************************************************************************)
(* Property get / set of power_mode, bandwidth, data_rate, range,          *)
(* resolution.                                                             *)
(***************************************************************************)
SetField(f, v) ==
    /\ pc = "ready"
    /\ nops < MaxOps
    /\ nops' = nops + 1
    /\ LET st == SetBits([regs |-> regs, bus |-> <<>>], f, v)
       IN  /\ regs' = st.regs
           /\ bus' = st.bus
    /\ last' = Outcome("set", f, v, 0, "none")
    /\ pc' = pc

GetFieldClearing(f) ==
    /\ pc = "ready"
    /\ nops < MaxOps
    /\ nops' = nops + 1
    /\ LET st == SetBits([regs |-> regs, bus |-> <<>>], f, 0)
       IN  /\ regs' = st.regs
           /\ bus' = st.bus
    /\ last' = Outcome("get", f, 0, FieldGet(f, regs), "none")
    /\ pc' = pc
GetField(f) ==
    /\ pc = "ready"
    /\ nops < MaxOps
    /\ nops' = nops + 1
    /\ bus' = <<BusRead(RegOf(f), f)>>
    /\ last' = Outcome("get", f, 0, FieldGet(f, regs), "none")
    /\ UNCHANGED <<regs, pc>>

(***************************************************************************)
(* MSA301.acceleration                                                     *)
(***************************************************************************)
\* ROBits(48, _MSA301_REG_OUT_X_L, 0, 6).__get__: the 6 bytes read from
\* 0x02..0x07 are folded into one integer, highest address first:
\*     for i in 6, 5, .., 1: reg = (reg << 8) | buffer[i]
\* The integer is kept as its base-256 digits, least significant first, so
\* (reg << 8) | b puts b in front of the digits.
RECURSIVE FoldBytes(_, _, _)
FoldBytes(rs, i, reg) ==
    IF i < 1 THEN reg
    ELSE FoldBytes(rs, i - 1, <<rs[MSA301_REG_OUT_X_L + i - 1]>> \o reg)


xyz_raw(rs) == FoldBytes(rs, 6, <<>>)

\* bottom_byte = (raw_data >> (8 * shift)) & 0xFF
BottomByte(raw_data, shift) ==
    IF shift + 1 <= Len(raw_data) THEN raw_data[shift + 1] ELSE 0

\* acc_bytes after the loop `for shift in range(6)`
AccBytes(raw_data) == [shift \in 1..6 |-> BottomByte(raw_data, shift - 1)]

\* one "<h" of struct.unpack_from: little-endian two's-complement 16 bits
UnpackShort(lo, hi) ==
    LET u == lo + 256 * hi
    IN  IF u >= 32768 THEN u - 65536 ELSE u

\* struct.unpack_from("<hhh", acc_bytes)
UnpackHHH(b) ==
    <<UnpackShort(b[1], b[2]), UnpackShort(b[3], b[4]), UnpackShort(b[5], b[6])>>

\* Python's x >> 2 on a signed integer rounds towards minus infinity
ShiftRight2Trunc(x) == IF x >= 0 THEN x \div 4 ELSE 0 - ((0 - x) \div 4)
ShiftRight2(x) == x \div 4

\* the if-chain selecting `scale` from current_range
ScaleOf(current_range) ==
    LET s0 == 1
        s1 == IF current_range = 3 THEN 512 ELSE s0
        s2 == IF current_range = 2 THEN 1024 ELSE s1
        s3 == IF current_range = 1 THEN 2048 ELSE s2
    IN  IF current_range = 0 THEN 4096 ELSE s3

\* current_range = self.range, read from the device at the time of the call
CurrentRangeStale(rs) == Range_RANGE_4_G
CurrentRange(rs) == FieldGet("range", rs)

\* The result ((v >> 2) / scale) * _STANDARD_GRAVITY is a float; the model
\* keeps it exact as the numerator (v >> 2) * 9806 over scale * 1000.
Acceleration ==
    /\ pc = "ready"
    /\ nops < MaxOps
    /\ nops' = nops + 1
    /\ LET xyz == UnpackHHH(AccBytes(xyz_raw(regs)))
           shifted == [a \in 1..3 |-> ShiftRight2(xyz[a])]
           scale == ScaleOf(CurrentRange(regs))
       IN  last' = [op |-> "acceleration", field |-> "none", value |-> 0,
                    result |-> 0, err |-> "none",
                    raw |-> shifted, scale |-> scale,
                    num |-> [a \in 1..3 |-> shifted[a] * STANDARD_GRAVITY_MILLI]]
    /\ bus' = <<BusRead(MSA301_REG_OUT_X_L, "_xyz_raw"),
                BusRead(MSA301_REG_RESRANGE, "range")>>
    /\ UNCHANGED <<regs, pc>>

(***************************************************************************)
(* Specifications.                                                         *)
(***************************************************************************)
InRange(f) == 0 .. ((2 ^ NumBits(f)) - 1)
OverRange(f) == (2 ^ NumBits(f)) .. ((2 ^ NumBits(f)) + MaxOver)
Corner(f) == IF f = "range" THEN InRange(f) ELSE {(2 ^ NumBits(f)) - 1}

\* The driver used as documented: every argument fits its field.
Next ==
    \/ Construct
    \/ \E f \in Fields : \E v \in InRange(f) : SetField(f, v)
    \/ \E f \in Fields : GetField(f)
    \/ Acceleration

Spec == Init /\ [][Next]_vars

\* Construction alone, from a wider choice of initial register contents.
InitWide ==
    /\ \E id \in 0..255, a \in 0..MaxWide, b \in 0..MaxWide, c \in 0..MaxWide :
          regs = RegFile(id, OutBytes(0, 1, 2),
                         InitByte(a), InitByte(b), InitByte(c))
    /\ pc = "new"
    /\ bus = <<>>
    /\ last = Outcome("none", "none", 0, 0, "none")
    /\ nops = 0

NextInit == Construct

SpecInit == InitWide /\ [][NextInit]_vars

\* Arguments beyond the width of their field as well.
NextAny ==
    \/ Construct
    \/ \E f \in Fields : \E v \in InRange(f) \cup OverRange(f) : SetField(f, v)
    \/ \E f \in Fields : GetField(f)

SpecAny == Init /\ [][NextAny]_vars

\* Acceleration reads over a choice of output-register contents.
InitAccel ==
    /\ \E i \in 0..(NumPairs - 1), j \in 0..(NumPairs - 1), k \in 0..(NumPairs - 1) :
          regs = RegFile(MSA301_PART_ID, OutBytes(i, j, k),
                         InitByte(0), InitByte(1), InitByte(2))
    /\ pc = "new"
    /\ bus = <<>>
    /\ last = Outcome("none", "none", 0, 0, "none")
    /\ nops = 0

NextAccel ==
    \/ Construct
    \/ \E f \in Fields : \E v \in Corner(f) : SetField(f, v)
    \/ Acceleration

SpecAccel == InitAccel /\ [][NextAccel]_vars

(***************************************************************************)
(* Properties.                                                             *)
(***************************************************************************)
\* bit b of register r, read off the register file directly
RegBit(rs, r, b) == (rs[r] \div (2 ^ b)) % 2

\* C1: when the part id read from register 0x01 is not 0x13, construction
\* fails with the identity error (AttributeError "Cannot find a MSA301"),
\* issues no register write and leaves every register as it was.
C1_IdentityMismatchFails ==
    [][(pc = "new" /\ regs[1] # 19) =>
          /\ pc' = "failed"
          /\ last'.op = "init"
          /\ last'.err = "AttributeError"
          /\ Writes(bus') = <<>>
          /\ regs' = regs]_vars

C1_Witness ==
    /\ pc = "failed"
    /\ last.op = "init"
    /\ last.err = "AttributeError"
    /\ regs[1] = 18
    /\ regs[16] = 255

C3_RoundTrip ==
    (last.op = "set" /\ last.value \in InRange(last.field)) =>
        FieldGet(last.field, regs) = last.value

C3_Witness ==
    /\ last.op = "set"
    /\ last.field = "power_mode"
    /\ last.value = 3
    /\ FieldGet("power_mode", regs) = 3
    /\ nops = 2

\* the bit span of each field, as the register map states it
SpanReg(f) ==
    CASE f = "power_mode" -> 17
      [] f = "bandwidth"  -> 17
      [] f = "data_rate"  -> 16
      [] f = "range"      -> 15
      [] f = "resolution" -> 15

SpanBits(f) ==
    CASE f = "power_mode" -> {6, 7}
      [] f = "bandwidth"  -> {1, 2, 3, 4}
      [] f = "data_rate"  -> {0, 1, 2, 3}
      [] f = "range"      -> {0, 1}
      [] f = "resolution" -> {2, 3}

\* C4: setting a field to an in-range value changes no bit outside the
\* field's own span: every other bit of its register and every other
\* register keep their value, and setting power_mode leaves bandwidth as
\* it was.
C4_SiblingBitsPreserved ==
    [][(last'.op = "set" /\ last'.value \in InRange(last'.field)) =>
          /\ \A r \in Registers : \A b \in 0..7 :
                (r # SpanReg(last'.field) \/ b \notin SpanBits(last'.field))
                    => RegBit(regs', r, b) = RegBit(regs, r, b)
          /\ last'.field = "power_mode" =>
                FieldGet("bandwidth", regs') = FieldGet("bandwidth", regs)]_vars

\* resolution rewritten while the bits around it (range, bits 4-7) are set
C4_Witness ==
    /\ last.op = "set"
    /\ last.field = "resolution"
    /\ last.value = 0
    /\ regs[15] = 241

\* C5: a value that does not fit the field is rejected with
\* InvalidArgumentError before any bus write.
C5_OutOfRangeRejected ==
    (last.op = "set" /\ last.value \notin InRange(last.field)) =>
        /\ last.err = "InvalidArgumentError"
        /\ Writes(bus) = <<>>

\* the scale divisor of each range code, as the table states it
DivisorTable(r) ==
    CASE r = 0 -> 4096
      [] r = 1 -> 2048
      [] r = 2 -> 1024
      [] r = 3 -> 512

\* C6: an acceleration read divides by the divisor of the range held in
\* bits 0-1 of register 0x0F at the time of the read, never by the fallback
\* 1, and each axis is (shifted sample / divisor) * 9.806.
C6_LiveRangeScaling ==
    last.op = "acceleration" =>
        /\ last.scale = DivisorTable(regs[15] % 4)
        /\ last.scale # 1
        /\ \A a \in 1..3 : last.num[a] = last.raw[a] * 9806

\* read at +/-16g after the range was changed from the constructed +/-4g
C6_Witness ==
    /\ last.op = "acceleration"
    /\ regs[15] % 4 = 3
    /\ last.scale = 512
    /\ last.num[1] = 9806

\* the 16-bit two's-complement value of a (low, high) byte pair
Signed16(lo, hi) ==
    IF lo + 256 * hi >= 32768 THEN lo + 256 * hi - 65536 ELSE lo + 256 * hi

\* C7: the sample of X comes from registers 0x02/0x03, Y from 0x04/0x05,
\* Z from 0x06/0x07, each the signed 16-bit value of low + 256 * high
\* shifted right arithmetically by 2, i.e. the floor of value / 4; 0xFFFC
\* gives -1 and bytes 0x04, 0x00 give 1.
C7_SampleReconstruction ==
    last.op = "acceleration" =>
        \A a \in 1..3 :
            LET lo == regs[2 * a]
                hi == regs[2 * a + 1]
                s  == Signed16(lo, hi)
            IN  /\ s \in -32768..32767
                /\ last.raw[a] \in -8192..8191
                /\ 4 * last.raw[a] <= s
                /\ s < 4 * last.raw[a] + 4
                /\ (lo = 252 /\ hi = 255) => last.raw[a] = -1
                /\ (lo = 4 /\ hi = 0) => last.raw[a] = 1

\* X = 0xFFFC, Y = 0xFFFF, Z = 0x0004
C7_Witness ==
    /\ last.op = "acceleration"
    /\ regs[2] = 252 /\ regs[3] = 255
    /\ regs[4] = 255 /\ regs[5] = 255
    /\ regs[6] = 4 /\ regs[7] = 0
    /\ last.raw = <<-1, -1, 1>>

WrittenBy(log) == [i \in 1..Len(Writes(log)) |-> Writes(log)[i].by]

\* C8 as stated: a successful construction issues exactly the writes of
\* power_mode, data_rate, bandwidth, range, resolution, four or five
\* register writes in all, and none before the part-id read.
C8_WritesAsStated ==
    (pc = "ready" /\ last.op = "init") =>
        /\ Len(Writes(bus)) \in {4, 5}
        /\ WrittenBy(bus) =
              <<"power_mode", "data_rate", "bandwidth", "range", "resolution">>
        /\ bus[1].kind = "read" /\ bus[1].reg = 1

\* C8 amended: a successful construction first reads the part id, then
\* issues exactly eight register writes: the three axis-disable bits
\* (X, Y, Z, register 0x10) are cleared, then power_mode, data_rate,
\* bandwidth, range, resolution are written in that order.
C8_ConstructionWrites ==
    (pc = "ready" /\ last.op = "init") =>
        /\ Len(Writes(bus)) = 8
        /\ WrittenBy(bus) =
              <<"_disable_x", "_disable_y", "_disable_z",
                "power_mode", "data_rate", "bandwidth", "range", "resolution">>
        /\ [i \in 1..8 |-> Writes(bus)[i].reg] = <<16, 16, 16, 17, 16, 17, 15, 15>>
        /\ bus[1].kind = "read" /\ bus[1].reg = 1

C8_Witness ==
    /\ pc = "ready"
    /\ last.op = "init"
    /\ Len(Writes(bus)) = 8
    /\ Writes(bus)[8].val = 81

\* C9: getting a field or reading acceleration issues bus reads only and
\* leaves every register as it was; acceleration reads the output bytes,
\* then the range field; two gets of one field in a row return the same.
C9_ReadsDoNotWrite ==
    [][/\ last'.op \in {"get", "acceleration"} =>
              /\ regs' = regs
              /\ Writes(bus') = <<>>
       /\ last'.op = "acceleration" =>
              /\ Len(bus') = 2
              /\ bus'[1].reg = 2
              /\ bus'[2].reg = 15
       /\ (last.op = "get" /\ last'.op = "get" /\ last'.field = last.field) =>
              last'.result = last.result]_vars

\* a second operation that was a get of a non-zero field
C9_Witness ==
    /\ last.op = "get"
    /\ last.field = "bandwidth"
    /\ last.result = 9
    /\ nops = 2
    /\ Writes(bus) = <<>>

\* C10: once constructed, the axis-disable bits 5, 6, 7 of register 0x10
\* are 0, and stay 0 under sets of in-range values, gets and acceleration
\* reads.
C10_AxesStayEnabled ==
    pc = "ready" =>
        /\ RegBit(regs, 16, 7) = 0
        /\ RegBit(regs, 16, 6) = 0
        /\ RegBit(regs, 16, 5) = 0

\* after construction and two sets, the last one filling data_rate
C10_Witness ==
    /\ pc = "ready"
    /\ nops = 2
    /\ last.op = "set"
    /\ last.field = "data_rate"
    /\ last.value = 15
    /\ regs[16] = 31
====
